---- MODULE Spec2Model ----
(***************************************************************************)
(* go-verfploeter: the dual-protocol ICMP probe/reply engine.              *)
(*                                                                         *)
(* Two program variants live in the repository: main.go (registry of      *)
(* nodes, labelled replies counter, one random target per tick, first     *)
(* round at start) and part_000 with metrics.go (no registry, unlabelled  *)
(* replies counter, every target per tick, first round after one tick).   *)
(* The variable "variant" says which of the two programs is running.      *)
(***************************************************************************)
EXTENDS Integers, Sequences, FiniteSets, TLC

VARIABLES
    variant,    \* "main" (src/main.go) or "part_000" (src/unnamed/part_000)
    nodes,      \* config.Nodes: the registry, a map uint8 -> name
    cfgID,      \* config.ID / *id: the identifier put in every probe
    targets,    \* the target list
    interval,   \* the configured probe interval: "bad", "nonpositive", "ok"
    source,     \* the configured source address each socket is bound to
    mpc,        \* position of the main goroutine
    ti,         \* part_000: index of the next target of the running round
    conn,       \* pc4, pc6: "nil", "open" or "closed"
    lpc,        \* position of each reply listener: "off", "read", "parse"
    buf,        \* each listener's reply[:n], the datagram ReadFrom returned
    rxq,        \* datagrams queued by the kernel on each socket, in order
    delivered,  \* datagrams the network has delivered so far
    handed,     \* countable echo replies ReadFrom has returned: label -> number
    sent,       \* WriteTo calls made on each socket, in order
    probeLog,   \* the "Sending probe to %s" records, in order
    requests,   \* the probes-sent counter
    replies,    \* the replies-received counter vector: label -> count
    srcLabel,   \* the "src" const label of the counters (main.go)
    lastLog,    \* the last record written to the log
    metrics,    \* the metrics listener goroutine: "off" or "serving"
    rounds,     \* probe-emission rounds started
    ticks       \* ticks consumed from probeTicker.C

vars == <<variant, nodes, cfgID, targets, interval, source, mpc, ti, conn, lpc,
          buf, rxq, delivered, handed, sent, probeLog, requests, replies,
          srcLabel, lastLog, metrics, rounds, ticks>>

---------------------------------------------------------------------------
(* Bounds of the model *)

MaxRounds == 2
MaxDeliver == 2

---------------------------------------------------------------------------
(* Program constants *)

Uint8 == 256
Uint16 == 65536
ProtocolICMP == 1
ProtocolIPv6ICMP == 58
ICMPTypeEcho == 8
ICMPTypeEchoReply == 0
ICMPv6TypeEchoRequest == 128
ICMPv6TypeEchoReply == 129
HeaderLen == 4

Socks == {"ip4", "ip6"}
pc4 == conn["ip4"]
pc6 == conn["ip6"]

NoDatagram == [typ |-> 0, id |-> 0, len |-> 0]
NoLabel == ""

---------------------------------------------------------------------------
(* Node registry *)

\* Go's map index with the comma-ok form: nodes[id]
MapLookup(m, id) ==
    IF id \in DOMAIN m THEN [ok |-> TRUE, v |-> m[id]]
    ELSE [ok |-> FALSE, v |-> ""]

\* strconv-style decimal rendering used by the %d verb
Digit(d) ==
    CASE d = 0 -> "0" [] d = 1 -> "1" [] d = 2 -> "2" [] d = 3 -> "3"
      [] d = 4 -> "4" [] d = 5 -> "5" [] d = 6 -> "6" [] d = 7 -> "7"
      [] d = 8 -> "8" [] d = 9 -> "9"

RECURSIVE FormatInt(_)
FormatInt(n) ==
    IF n < 10 THEN Digit(n) ELSE FormatInt(n \div 10) \o Digit(n % 10)

\* findNode without the comma-ok test: a miss yields the map's zero value
findNodeZero(id, m) == MapLookup(m, id).v

findNode(id, m) ==
    LET r == MapLookup(m, id) IN
    IF r.ok THEN r.v ELSE "unknown (id " \o FormatInt(id) \o ")"

---------------------------------------------------------------------------
(* Inputs *)

EmptyRegistry == << >>

\* The source addresses of a configuration: main.go's are empty when the
\* configuration file leaves them out, part_000's flags default to the
\* wildcard of each family; an IPv6 source may carry a zone.
Sources(a4, a6) == [ip4 |-> a4, ip6 |-> a6]

\* The configurations the program is started with: the registry, the own
\* identifier, the target list and the source addresses of each variant.
\* part_000 has no registry.
Configs ==
    { [variant |-> "main", nodes |-> (1 :> "ams") @@ (2 :> "nyc"), id |-> 2,
       targets |-> <<"10.0.0.1", "::1">>, source |-> Sources("", "")],
      [variant |-> "main", nodes |-> (1 :> "ams"), id |-> 9,
       targets |-> <<"bad.invalid", "">>,
       source |-> Sources("10.0.0.1", "fe80::1%eth0")],
      [variant |-> "part_000", nodes |-> EmptyRegistry, id |-> 9,
       targets |-> <<"10.0.0.1", "::1">>, source |-> Sources("0.0.0.0", "::")],
      [variant |-> "part_000", nodes |-> EmptyRegistry, id |-> 2,
       targets |-> <<"bad.invalid", "::1">>,
       source |-> Sources("10.0.0.1", "::1")] }

Intervals == {"bad", "nonpositive", "ok"}

\* What the kernel may queue on a raw ICMP socket: echo replies carrying
\* several identifiers, of either family's reply type, a destination
\* unreachable, and a datagram cut short inside its header.
Datagrams ==
    { [typ |-> ICMPTypeEchoReply, id |-> 2, len |-> 8],
      [typ |-> ICMPv6TypeEchoReply, id |-> 258, len |-> 8],
      [typ |-> ICMPv6TypeEchoReply, id |-> 9, len |-> 8],
      [typ |-> 3, id |-> 0, len |-> 8],
      [typ |-> ICMPTypeEchoReply, id |-> 2, len |-> 2] }

---------------------------------------------------------------------------
(* Addresses *)

NilIP == [fam |-> "nil", addr |-> ""]

\* net.ParseIP: the literal forms the model uses; anything else is nil
ParseIP(str) ==
    CASE str \in {"10.0.0.1", "0.0.0.0"} -> [fam |-> "v4", addr |-> str]
      [] str \in {"::1", "::"} -> [fam |-> "v6", addr |-> str]
      [] OTHER -> NilIP

\* ip.To4() != nil
To4NotNil(ip) == ip.fam = "v4"

\* net.ResolveIPAddr("ip", target): a literal resolves to itself, the empty
\* string to an IPAddr with a nil IP and no error, an unknown host fails.
ResolveIPAddr(target) ==
    CASE target = "" -> [err |-> FALSE, ip |-> NilIP]
      [] ParseIP(target) # NilIP -> [err |-> FALSE, ip |-> ParseIP(target)]
      [] OTHER -> [err |-> TRUE, ip |-> NilIP]

\* the local address as a UDP endpoint prints it: host and port
LocalAddrWithPort(s) ==
    (IF source[s] # "" THEN source[s]
     ELSE IF s = "ip4" THEN "0.0.0.0" ELSE "::") \o ":0"

\* pc.LocalAddr().String() of socket s: the address the socket is bound
\* to, zone included; an empty source binds the wildcard of the family
LocalAddr(s) ==
    IF source[s] # "" THEN source[s]
    ELSE IF s = "ip4" THEN "0.0.0.0" ELSE "::"

---------------------------------------------------------------------------
(* ICMP messages *)

ICMPType(proto, num) == [proto |-> proto, num |-> num]

\* icmpMessage.Type as icmpProbe sets it from the resolved address
ProbeType(ip) ==
    IF To4NotNil(ip) THEN ICMPType(ProtocolICMP, ICMPTypeEcho)
    ELSE ICMPType(ProtocolIPv6ICMP, ICMPv6TypeEchoRequest)

\* the send step without the family test: every packet goes out on pc4
ProbeSockAlways4(ip) == "ip4"

\* the socket icmpProbe writes to
ProbeSock(ip) == IF To4NotNil(ip) THEN "ip4" ELSE "ip6"

\* binary.BigEndian.PutUint16 stored low byte first
PutUint16LittleEndian(v) == <<v % Uint8, (v \div Uint8) % Uint8>>

\* binary.BigEndian.PutUint16 and binary.BigEndian.Uint16: the two bytes of
\* a 16-bit field on the wire, high byte first
PutUint16(v) == <<(v \div Uint8) % Uint8, v % Uint8>>
BigEndianUint16(b) == b[1] * Uint8 + b[2]

\* icmpMessage.Marshal(nil) of an Echo body without data: 4 header bytes,
\* identifier and sequence number on 16 bits each. A datagram's id is the
\* value of the two identifier bytes read high byte first.
Marshal(msg) ==
    [typ |-> msg.Type.num,
     id |-> BigEndianUint16(PutUint16(msg.Body.ID % Uint16)),
     len |-> HeaderLen + 4]

\* the types icmp.ParseMessage parses with a body of at least 4 bytes
EchoTypes ==
    { ICMPType(ProtocolICMP, ICMPTypeEcho),
      ICMPType(ProtocolICMP, ICMPTypeEchoReply),
      ICMPType(ProtocolIPv6ICMP, ICMPv6TypeEchoRequest),
      ICMPType(ProtocolIPv6ICMP, ICMPv6TypeEchoReply) }

\* icmp.ParseMessage(proto, b)
ParseMessage(proto, b) ==
    LET t == ICMPType(proto, b.typ) IN
    IF b.len < HeaderLen THEN [err |-> TRUE, Type |-> t, Body |-> [kind |-> "none", ID |-> 0]]
    ELSE IF t \in EchoTypes
         THEN IF b.len - HeaderLen < 4
              THEN [err |-> TRUE, Type |-> t, Body |-> [kind |-> "none", ID |-> 0]]
              ELSE [err |-> FALSE, Type |-> t, Body |-> [kind |-> "Echo", ID |-> b.id]]
         ELSE [err |-> FALSE, Type |-> t, Body |-> [kind |-> "Other", ID |-> 0]]

\* the protocol number readEchoReply parses with
ReplyProto(s) ==
    IF To4NotNil(ParseIP(LocalAddr(s))) THEN ProtocolICMP ELSE ProtocolIPv6ICMP

\* the type test comparing type numbers only, whatever the family
IsEchoReplyNumber(t) == t.num \in {ICMPTypeEchoReply, ICMPv6TypeEchoReply}

\* the type test of readEchoReply
IsEchoReplyType(t) ==
    ~(t # ICMPType(ProtocolICMP, ICMPTypeEchoReply)
      /\ t # ICMPType(ProtocolIPv6ICMP, ICMPv6TypeEchoReply))

---------------------------------------------------------------------------
(* Counters and log records *)

\* an increment done as a separate load and store: the second of two
\* increments that race stores the value the first one stored
CounterIncLost(c) == IF c >= 1 THEN c ELSE c + 1

\* Counter.Inc() and CounterVec.With(label).Inc(): one atomic add of 1
CounterInc(c) == c + 1

CounterValue(vec, label) == IF label \in DOMAIN vec THEN vec[label] ELSE 0

\* the labelled increment called twice for one reply
CounterVecIncTwice(vec, label) ==
    [l \in DOMAIN vec \cup {label} |->
        IF l = label THEN CounterValue(vec, l) + 2 ELSE vec[l]]

CounterVecInc(vec, label) ==
    [l \in DOMAIN vec \cup {label} |->
        IF l = label THEN CounterInc(CounterValue(vec, l)) ELSE vec[l]]

NoLog == [lvl |-> "none", msg |-> "", id |-> 0]
LogWarn(msg) == [lvl |-> "warn", msg |-> msg, id |-> 0]
LogDebug(msg, id) == [lvl |-> "debug", msg |-> msg, id |-> id]

---------------------------------------------------------------------------
(* The prober *)

\* icmpProbe(target, id); werr says whether the socket's WriteTo fails.
\* The result names the error returned and the WriteTo call made, if any.
icmpProbe(target, id, werr) ==
    LET r == ResolveIPAddr(target)
        msg == [Type |-> ProbeType(r.ip), Code |-> 0, Body |-> [ID |-> id]]
    IN  IF r.err
        THEN [err |-> "resolve", wrote |-> FALSE, sock |-> "none",
              bytes |-> NoDatagram, dst |-> NilIP]
        ELSE [err |-> IF werr THEN "write" ELSE "none", wrote |-> TRUE,
              sock |-> ProbeSock(r.ip), bytes |-> Marshal(msg), dst |-> r.ip]

\* the counter incremented inside icmpProbe's transmit step instead
RequestsAfterWritten(n, res) == IF res.wrote THEN n + 1 ELSE n

\* the probes-sent counter after one pass of the tick loop's body, whose
\* call of icmpProbe returned res: requests.Inc() precedes the call
RequestsAfter(n, res) == CounterInc(n)

\* the lookup made with the identifier as the reply carries it
ReplyLabelWide(v, id, m) ==
    IF v = "main" THEN findNode(id, m) ELSE NoLabel

\* the label readEchoReply counts a reply under: main.go looks the
\* identifier up, narrowed to uint8; metrics.go has one unlabelled counter
ReplyLabel(v, id, m) ==
    IF v = "main" THEN findNode(id % Uint8, m) ELSE NoLabel

\* readEchoReply counting every datagram that parses, before the type test
readEchoReplyNoTypeTest(v, s, b, m) ==
    LET pm == ParseMessage(ReplyProto(s), b) IN
    IF pm.err THEN [err |-> "unable to parse ICMP message", count |-> FALSE, label |-> NoLabel, id |-> 0]
    ELSE [err |-> "", count |-> TRUE, label |-> ReplyLabel(v, pm.Body.ID, m),
          id |-> pm.Body.ID]

\* readEchoReply after ReadFrom returned datagram b on socket s
readEchoReply(v, s, b, m) ==
    LET pm == ParseMessage(ReplyProto(s), b) IN
    IF pm.err THEN [err |-> "unable to parse ICMP message", count |-> FALSE, label |-> NoLabel, id |-> 0]
    ELSE IF ~IsEchoReplyType(pm.Type)
    THEN [err |-> "unexpected ICMP message type", count |-> FALSE, label |-> NoLabel, id |-> 0]
    ELSE IF pm.Body.kind # "Echo"
    THEN [err |-> "unable to assert message body as *icmp.Echo", count |-> FALSE, label |-> NoLabel, id |-> 0]
    ELSE [err |-> "", count |-> TRUE, label |-> ReplyLabel(v, pm.Body.ID, m),
          id |-> pm.Body.ID]

---------------------------------------------------------------------------
(* Initial state: the process has started, nothing is open *)

Init ==
    /\ \E c \in Configs :
        /\ variant = c.variant
        /\ nodes = c.nodes
        /\ cfgID = c.id
        /\ targets = c.targets
        /\ source = c.source
    /\ interval \in Intervals
    /\ mpc = "config"
    /\ ti = 1
    /\ conn = [s \in Socks |-> "nil"]
    /\ lpc = [s \in Socks |-> "off"]
    /\ buf = [s \in Socks |-> NoDatagram]
    /\ rxq = [s \in Socks |-> << >>]
    /\ delivered = 0
    /\ handed = << >>
    /\ sent = [s \in Socks |-> << >>]
    /\ probeLog = << >>
    /\ requests = 0
    /\ replies = << >>
    /\ srcLabel = ""
    /\ lastLog = NoLog
    /\ metrics = "off"
    /\ rounds = 0
    /\ ticks = 0

Alive == mpc # "exited"

---------------------------------------------------------------------------
(* The main goroutine: setup *)

\* the probe state left alone by setup and listener steps
probeVars == <<ti, sent, probeLog, requests, rounds, ticks>>
listenVars == <<lpc, buf, rxq, delivered, handed, replies>>
configVars == <<variant, nodes, cfgID, targets, interval, source>>

\* The process ends: every goroutine stops where it is, the receive buffers and the kernel's queues go with it. What the process
\* did to the sockets, the counters as last exported, the packets written and
\* the log remain to be observed.
ExitProcess ==
    /\ mpc' = "exited"
    /\ lpc' = [s \in Socks |-> "off"]
    /\ buf' = [s \in Socks |-> NoDatagram]
    /\ rxq' = [s \in Socks |-> << >>]
    /\ metrics' = "off"
    /\ ti' = 1

\* what a step that may end the process leaves alone
exitFrame == <<configVars, sent, probeLog, requests, rounds, ticks, delivered,
               handed, replies, lastLog>>

\* log.Fatal / log.Fatalf: os.Exit(1), deferred calls do not run
Fatal == ExitProcess /\ UNCHANGED conn

\* Reading the configuration and creating the counters. An unparseable
\* interval (yaml.Unmarshal, time.ParseDuration) is fatal. main.go labels the
\* counters with the own node's name; metrics.go with *id as it is before
\* flag.Parse, which is the flag's default 0.
LoadConfig ==
    /\ mpc = "config"
    /\ IF interval = "bad"
       THEN Fatal /\ UNCHANGED srcLabel
       ELSE /\ mpc' = "open4"
            /\ srcLabel' = IF variant = "main" THEN findNode(cfgID, nodes)
                           ELSE FormatInt(0)
            /\ UNCHANGED <<lpc, buf, rxq, metrics, ti, conn>>
    /\ UNCHANGED exitFrame

\* pc, err = icmp.ListenPacket(...) on socket s: an error is fatal,
\* otherwise the handle is kept, its Close deferred, and main goes on
ListenPacket(s, ok, next) ==
    IF ok
    THEN /\ conn' = [conn EXCEPT ![s] = "open"]
         /\ mpc' = next
         /\ UNCHANGED <<lpc, buf, rxq, metrics, ti>>
    ELSE Fatal

\* main going on to start the listeners with pc6 not opened yet
Open4SkipOpen6 ==
    /\ mpc = "open4"
    /\ \E ok \in BOOLEAN : ListenPacket("ip4", ok, "go4")
    /\ UNCHANGED <<exitFrame, srcLabel>>

\* pc4, err = icmp.ListenPacket("ip4:icmp", ...); defer pc4.Close()
Open4 ==
    /\ mpc = "open4"
    /\ \E ok \in BOOLEAN : ListenPacket("ip4", ok, "open6")
    /\ UNCHANGED <<exitFrame, srcLabel>>

\* pc6, err = icmp.ListenPacket("ip6:icmp", ...); defer pc6.Close()
Open6 ==
    /\ mpc = "open6"
    /\ \E ok \in BOOLEAN : ListenPacket("ip6", ok, "go4")
    /\ UNCHANGED <<exitFrame, srcLabel>>

\* go func() { for { readEchoReply(pc4, ...) } }()
Go4 ==
    /\ mpc = "go4"
    /\ mpc' = "go6"
    /\ lpc' = [lpc EXCEPT !["ip4"] = "read"]
    /\ UNCHANGED <<configVars, probeVars, buf, rxq, delivered, handed, replies,
                   conn, srcLabel, lastLog, metrics>>

\* go func() { for { readEchoReply(pc6, ...) } }()
Go6 ==
    /\ mpc = "go6"
    /\ mpc' = "goMetrics"
    /\ lpc' = [lpc EXCEPT !["ip6"] = "read"]
    /\ UNCHANGED <<configVars, probeVars, buf, rxq, delivered, handed, replies,
                   conn, srcLabel, lastLog, metrics>>

\* go metricsListen(...) / go func() { ... http.ListenAndServe ... }()
GoMetrics ==
    /\ mpc = "goMetrics"
    /\ mpc' = "ticker"
    /\ metrics' = "serving"
    /\ UNCHANGED <<configVars, probeVars, listenVars, conn, srcLabel, lastLog>>

\* http.ListenAndServe returned: log.Fatal ends the process
MetricsFatal ==
    /\ Alive
    /\ metrics = "serving"
    /\ Fatal
    /\ UNCHANGED <<exitFrame, srcLabel>>

---------------------------------------------------------------------------
(* The main goroutine: the ticker loop *)

\* a ticker loop of the form "for ; true; <-probeTicker.C" in both programs
NewTickerFireAtOnce ==
    /\ mpc = "ticker"
    /\ IF interval = "ok"
       THEN mpc' = "probe" /\ rounds' = rounds + 1
       ELSE mpc' = "unwind6" /\ UNCHANGED rounds
    /\ UNCHANGED <<configVars, ti, sent, probeLog, requests, ticks,
                   listenVars, conn, srcLabel, lastLog, metrics>>

\* time.NewTicker panics on a non-positive interval; the panic unwinds main
\* and runs its deferred calls. Otherwise main.go runs the first round at
\* once ("for ; true; <-probeTicker.C"), part_000 waits for the first tick
\* ("for range probeTicker.C").
NewTicker ==
    /\ mpc = "ticker"
    /\ IF interval = "ok"
       THEN IF variant = "main"
            THEN mpc' = "probe" /\ rounds' = rounds + 1
            ELSE mpc' = "wait" /\ UNCHANGED rounds
       ELSE mpc' = "unwind6" /\ UNCHANGED rounds
    /\ UNCHANGED <<configVars, ti, sent, probeLog, requests, ticks,
                   listenVars, conn, srcLabel, lastLog, metrics>>

\* the deferred pc6.Close(), run first by the unwinding
Unwind6 ==
    /\ mpc = "unwind6"
    /\ mpc' = "unwind4"
    /\ conn' = [conn EXCEPT !["ip6"] = "closed"]
    /\ UNCHANGED <<configVars, probeVars, listenVars, srcLabel, lastLog, metrics>>

\* the deferred pc4.Close(), then the runtime ends the process
Unwind4 ==
    /\ mpc = "unwind4"
    /\ conn' = [conn EXCEPT !["ip4"] = "closed"]
    /\ ExitProcess
    /\ UNCHANGED <<exitFrame, srcLabel>>

\* <-probeTicker.C: the runtime timer delivers a tick and main, waiting on
\* the channel, takes it and starts a round
TakeTick ==
    /\ mpc = "wait"
    /\ rounds < MaxRounds
    /\ ticks' = ticks + 1
    /\ rounds' = rounds + 1
    /\ ti' = 1
    /\ mpc' = "probe"
    /\ UNCHANGED <<configVars, sent, probeLog, requests, listenVars, conn,
                   srcLabel, lastLog, metrics>>

\* One pass of the loop body for targets[i]: the debug record, requests.Inc(),
\* icmpProbe, and the warning when it returns an error. A WriteTo on a
\* socket that is not open fails.
ProbeBody(i, werr) ==
    LET r0 == icmpProbe(targets[i], cfgID, werr)
        res == IF r0.wrote /\ conn[r0.sock] # "open"
               THEN icmpProbe(targets[i], cfgID, TRUE) ELSE r0
    IN  /\ probeLog' = Append(probeLog, targets[i])
        /\ requests' = RequestsAfter(requests, res)
        /\ sent' = IF res.wrote
                   THEN [sent EXCEPT ![res.sock] =
                            Append(@, [bytes |-> res.bytes, dst |-> res.dst])]
                   ELSE sent
        /\ lastLog' = IF res.err = "none" THEN LogDebug("Sending probe", cfgID)
                       ELSE LogWarn(res.err)

\* main.go: target := targets[rand.Intn(len(targets))], one probe per round
ProbeRandom ==
    /\ mpc = "probe"
    /\ variant = "main"
    /\ \E i \in 1..Len(targets), werr \in BOOLEAN : ProbeBody(i, werr)
    /\ mpc' = "wait"
    /\ UNCHANGED <<configVars, ti, rounds, ticks, listenVars, conn,
                   srcLabel, metrics>>

\* the range loop left after its first target
ProbeNextFirstOnly ==
    /\ mpc = "probe"
    /\ variant = "part_000"
    /\ \E werr \in BOOLEAN : ProbeBody(ti, werr)
    /\ mpc' = "wait" /\ ti' = 1
    /\ UNCHANGED <<configVars, rounds, ticks, listenVars, conn,
                   srcLabel, metrics>>

\* the range loop left at the first probe that returns an error
ProbeNextStopOnError ==
    /\ mpc = "probe"
    /\ variant = "part_000"
    /\ \E werr \in BOOLEAN : ProbeBody(ti, werr)
    /\ IF ti = Len(targets) \/ lastLog'.lvl = "warn"
       THEN mpc' = "wait" /\ ti' = 1
       ELSE mpc' = "probe" /\ ti' = ti + 1
    /\ UNCHANGED <<configVars, rounds, ticks, listenVars, conn,
                   srcLabel, metrics>>

\* part_000: for _, target := range targets, one probe per target
ProbeNext ==
    /\ mpc = "probe"
    /\ variant = "part_000"
    /\ \E werr \in BOOLEAN : ProbeBody(ti, werr)
    /\ IF ti = Len(targets)
       THEN mpc' = "wait" /\ ti' = 1
       ELSE mpc' = "probe" /\ ti' = ti + 1
    /\ UNCHANGED <<configVars, rounds, ticks, listenVars, conn,
                   srcLabel, metrics>>

---------------------------------------------------------------------------
(* The network and the reply listeners *)

\* both listener goroutines started on pc4
ListenerConnBoth4(l) == "ip4"

\* the socket listener l passes to readEchoReply: pc4 in the first
\* goroutine, pc6 in the second
ListenerConn(l) == l

\* the kernel queues a datagram on an open socket
Deliver(s) ==
    /\ Alive
    /\ conn[s] = "open"
    /\ delivered < MaxDeliver
    /\ delivered' = delivered + 1
    /\ \E d \in Datagrams : rxq' = [rxq EXCEPT ![s] = Append(@, d)]
    /\ UNCHANGED <<configVars, mpc, probeVars, lpc, buf, handed, replies, conn,
                   srcLabel, lastLog, metrics>>

\* pc.ReadFrom(reply) in listener s returns the next datagram queued on the
\* listener's socket
Recv(s) ==
    /\ Alive
    /\ lpc[s] = "read"
    /\ conn[ListenerConn(s)] = "open"
    /\ rxq[ListenerConn(s)] # << >>
    /\ buf' = [buf EXCEPT ![s] = Head(rxq[ListenerConn(s)])]
    /\ rxq' = [rxq EXCEPT ![ListenerConn(s)] = Tail(@)]
    /\ LET r == readEchoReply(variant, ListenerConn(s),
                              Head(rxq[ListenerConn(s)]), nodes) IN
        handed' = IF r.count
                  THEN [l \in DOMAIN handed \cup {r.label} |->
                           CounterValue(handed, l) + (IF l = r.label THEN 1 ELSE 0)]
                  ELSE handed
    /\ lpc' = [lpc EXCEPT ![s] = "parse"]
    /\ UNCHANGED <<configVars, mpc, probeVars, delivered, replies, conn,
                   srcLabel, lastLog, metrics>>

\* pc.ReadFrom(reply) returns an error (always so on a socket that is not
\* open): readEchoReply returns it, the loop warns and continues
RecvError(s) ==
    /\ Alive
    /\ lpc[s] = "read"
    /\ lastLog' = LogWarn("unable to read from icmp.PacketConn")
    /\ UNCHANGED <<configVars, mpc, probeVars, listenVars, conn, srcLabel,
                   metrics>>

\* the listener loop returning on an error instead of continuing
HandleReturnOnError(s) ==
    /\ Alive
    /\ lpc[s] = "parse"
    /\ LET r == readEchoReply(variant, ListenerConn(s), buf[s], nodes) IN
        /\ replies' = IF r.count THEN CounterVecInc(replies, r.label) ELSE replies
        /\ lastLog' = IF r.count THEN LogDebug("ICMP echo reply", r.id)
                       ELSE LogWarn(r.err)
        /\ lpc' = [lpc EXCEPT ![s] = IF r.count THEN "read" ELSE "off"]
    /\ buf' = [buf EXCEPT ![s] = NoDatagram]
    /\ UNCHANGED <<configVars, mpc, probeVars, rxq, delivered, handed, conn,
                   srcLabel, metrics>>

\* the rest of readEchoReply and of the loop body: parse, test the type and
\* the body, count, and log the reply or warn of the error
Handle(s) ==
    /\ Alive
    /\ lpc[s] = "parse"
    /\ LET r == readEchoReply(variant, ListenerConn(s), buf[s], nodes) IN
        /\ replies' = IF r.count THEN CounterVecInc(replies, r.label) ELSE replies
        /\ lastLog' = IF r.count THEN LogDebug("ICMP echo reply", r.id)
                       ELSE LogWarn(r.err)
    /\ lpc' = [lpc EXCEPT ![s] = "read"]
    /\ buf' = [buf EXCEPT ![s] = NoDatagram]
    /\ UNCHANGED <<configVars, mpc, probeVars, rxq, delivered, handed, conn,
                   srcLabel, metrics>>

---------------------------------------------------------------------------

Next ==
    \/ LoadConfig
    \/ Open4
    \/ Open6
    \/ Go4
    \/ Go6
    \/ GoMetrics
    \/ MetricsFatal
    \/ NewTicker
    \/ Unwind6
    \/ Unwind4
    \/ TakeTick
    \/ ProbeRandom
    \/ ProbeNext
    \/ \E s \in Socks : Deliver(s)
    \/ \E s \in Socks : Recv(s)
    \/ \E s \in Socks : RecvError(s)
    \/ \E s \in Socks : Handle(s)

Spec == Init /\ [][Next]_vars

---------------------------------------------------------------------------
(* Helpers of the properties *)

Writes == Len(sent["ip4"]) + Len(sent["ip6"])

\* a listener, the metrics listener or the ticker loop has been started
ListenerRunning(s) == lpc[s] # "off"
ProberRunning == mpc \in {"wait", "probe"}
AnyRunning ==
    \/ \E s \in Socks : ListenerRunning(s)
    \/ metrics = "serving"
    \/ ProberRunning

\* listener s, holding a datagram, ends its handling of it in this step
\* of the running process
Handled(s) == lpc[s] = "parse" /\ lpc'[s] # "parse" /\ mpc' # "exited"

\* the label a registry gives an identifier, written out without findNode
LabelOf(id, m) ==
    IF id \in DOMAIN m THEN m[id] ELSE "unknown (id " \o ToString(id) \o ")"

---------------------------------------------------------------------------
(* C1: the probes-sent counter and the transmit step *)

\* C1 as stated: the probes-sent counter is incremented only by calls of
\* icmpProbe that reach the socket write, so at all times it equals the
\* number of WriteTo calls made; a resolution failure leaves it unchanged.
C1_SentEqualsWrites == requests = Writes

\* C1 amended: every pass of the tick loop's body increments the probes-sent
\* counter exactly once, whether or not its call of icmpProbe reaches the
\* socket write. The counter equals the number of probe calls made (one
\* "Sending probe" record each) and is never below the number of writes.
C1_SentEqualsCalls ==
    /\ requests = Len(probeLog)
    /\ requests >= Writes

\* a target failed to resolve, was counted, and nothing was written for it
C1_Witness ==
    /\ probeLog = <<"bad.invalid">>
    /\ requests = 1
    /\ Writes = 0
    /\ lastLog = LogWarn("resolve")

---------------------------------------------------------------------------
(* C2: family dispatch of icmpProbe *)

\* C2: a probe call whose target resolves to an IPv4 address writes one
\* Echo (type 8) message on pc4 and nothing on pc6; one whose target resolves
\* to an IPv6 address writes one EchoRequest (type 128) message on pc6 and
\* nothing on pc4. Every call makes at most one write, and the type of a
\* written message is that of the family of the socket it is written on.
C2_FamilyDispatch ==
    [][ probeLog' # probeLog =>
          LET t == probeLog'[Len(probeLog')]
              r == ResolveIPAddr(t)
              new4 == Len(sent'["ip4"]) - Len(sent["ip4"])
              new6 == Len(sent'["ip6"]) - Len(sent["ip6"])
          IN  /\ new4 \in {0, 1} /\ new6 \in {0, 1} /\ new4 + new6 <= 1
              /\ (~r.err /\ r.ip.fam = "v4") =>
                    /\ new4 = 1 /\ new6 = 0
                    /\ sent'["ip4"][Len(sent'["ip4"])].dst = r.ip
              /\ (~r.err /\ r.ip.fam = "v6") =>
                    /\ new6 = 1 /\ new4 = 0
                    /\ sent'["ip6"][Len(sent'["ip6"])].dst = r.ip
              /\ new4 = 1 =>
                    /\ sent'["ip4"][Len(sent'["ip4"])].bytes.typ = 8
                    /\ sent'["ip4"][Len(sent'["ip4"])].bytes.id = cfgID
                    /\ SubSeq(sent'["ip4"], 1, Len(sent["ip4"])) = sent["ip4"]
              /\ new6 = 1 =>
                    /\ sent'["ip6"][Len(sent'["ip6"])].bytes.typ = 128
                    /\ sent'["ip6"][Len(sent'["ip6"])].bytes.id = cfgID
                    /\ SubSeq(sent'["ip6"], 1, Len(sent["ip6"])) = sent["ip6"]
      ]_vars

\* one round of part_000 has probed an IPv4 and an IPv6 target
C2_Witness ==
    /\ probeLog = <<"10.0.0.1", "::1">>
    /\ Len(sent["ip4"]) = 1 /\ sent["ip4"][1].bytes.typ = 8
    /\ Len(sent["ip6"]) = 1 /\ sent["ip6"][1].bytes.typ = 128

---------------------------------------------------------------------------
(* C3: findNode, checked for every identifier of a uint8 *)

LookupRegistries ==
    { (1 :> "ams") @@ (2 :> "nyc"), (1 :> "ams"), (0 :> "zero") @@ (255 :> "last") }

\* main.go started with any own identifier and one of the registries
LookupInit ==
    /\ variant = "main"
    /\ nodes \in LookupRegistries
    /\ cfgID \in 0..(Uint8 - 1)
    /\ targets = <<"10.0.0.1">>
    /\ interval = "ok"
    /\ source = Sources("", "")
    /\ mpc = "config"
    /\ ti = 1
    /\ conn = [s \in Socks |-> "nil"]
    /\ lpc = [s \in Socks |-> "off"]
    /\ buf = [s \in Socks |-> NoDatagram]
    /\ rxq = [s \in Socks |-> << >>]
    /\ delivered = 0
    /\ handed = << >>
    /\ sent = [s \in Socks |-> << >>]
    /\ probeLog = << >>
    /\ requests = 0
    /\ replies = << >>
    /\ srcLabel = ""
    /\ lastLog = NoLog
    /\ metrics = "off"
    /\ rounds = 0
    /\ ticks = 0

\* the step that applies findNode to the own identifier
LookupNext == LoadConfig

SpecLookup == LookupInit /\ [][LookupNext]_vars

\* C3: for every identifier 0..255, findNode returns the configured name
\* when the identifier is a key of the registry and "unknown (id N)", N the
\* identifier in decimal, when it is not; the result is always a string, and
\* the registry is never modified.
C3_FindNodeTotal ==
    /\ [](mpc = "open4" =>
            /\ srcLabel \in STRING
            /\ cfgID \in DOMAIN nodes => srcLabel = nodes[cfgID]
            /\ cfgID \notin DOMAIN nodes =>
                  srcLabel = "unknown (id " \o ToString(cfgID) \o ")")
    /\ [][nodes' = nodes]_vars

\* an identifier missing from the registry got its placeholder
C3_Witness ==
    /\ mpc = "open4"
    /\ cfgID = 255
    /\ nodes = (1 :> "ams")
    /\ srcLabel = "unknown (id 255)"

---------------------------------------------------------------------------
(* C4: messages that are not echo replies *)

\* the reply type number of the family of socket s
ReplyTypeOf(s) == IF s = "ip4" THEN 0 ELSE 129

\* C4: when a listener finishes an iteration on a datagram that parses but
\* whose type is not the echo reply of its socket's family, no replies
\* counter changes, the last log record is the warning of an unexpected
\* type, and the listener is back at its read.
C4_NonReplyDiscarded ==
    [][ \A s \in Socks :
          (Handled(s) /\ buf[s].len >= 8 /\ buf[s].typ # ReplyTypeOf(s)) =>
              /\ replies' = replies
              /\ requests' = requests
              /\ lastLog' = LogWarn("unexpected ICMP message type")
              /\ lpc'[s] = "read"
      ]_vars

\* a destination unreachable was read on pc6 and discarded with a warning,
\* and the listener waits for the next datagram
C4_Witness ==
    /\ lastLog = LogWarn("unexpected ICMP message type")
    /\ delivered = 1
    /\ lpc["ip6"] = "read" /\ rxq["ip6"] = << >> /\ rxq["ip4"] = << >>
    /\ replies = << >>

---------------------------------------------------------------------------
(* C5: datagrams that fail to parse, and the replies behind them *)

\* datagram d, read on socket s, is an echo reply the listener counts
Countable(s, d) == d.len >= 8 /\ d.typ = ReplyTypeOf(s)

\* datagram d is too short to hold an ICMP header
TooShort(d) == d.len < 4

RECURSIVE SumVec(_)
SumVec(vec) ==
    IF DOMAIN vec = {} THEN 0
    ELSE LET l == CHOOSE x \in DOMAIN vec : TRUE
         IN  vec[l] + SumVec([x \in DOMAIN vec \ {l} |-> vec[x]])

\* echo replies queued on socket s that no listener has read yet
PendingValid(s) ==
    Cardinality({i \in 1..Len(rxq[s]) : Countable(s, rxq[s][i])})

\* echo replies delivered so far to the running process, and those counted
TotalValid == SumVec(handed) + PendingValid("ip4") + PendingValid("ip6")
Counted == SumVec(replies)

\* main.go started with the registry {1: ams, 2: nyc}, the targets
\* 10.0.0.1 and ::1 and a positive interval
LiveInit ==
    /\ Init
    /\ variant = "main"
    /\ cfgID = 2
    /\ interval = "ok"

\* the steps main.go takes from there up to the end of its first round: the
\* ticker's period is long against the time the listeners are watched for
LiveMain ==
    \/ LoadConfig \/ Open4 \/ Open6 \/ Go4 \/ Go6 \/ GoMetrics \/ NewTicker
    \/ ProbeRandom

LiveNext ==
    \/ LiveMain
    \/ MetricsFatal
    \/ \E s \in Socks : Deliver(s)
    \/ \E s \in Socks : Recv(s)
    \/ \E s \in Socks : RecvError(s)
    \/ \E s \in Socks : Handle(s)

\* the goroutines of a Go program that can run do run: main takes its next
\* step, a listener whose socket holds a datagram reads it and handles it
Fairness ==
    /\ WF_vars(LiveMain)
    /\ \A s \in Socks : WF_vars(Recv(s)) /\ WF_vars(Handle(s))

LiveSpec == LiveInit /\ [][LiveNext]_vars /\ Fairness

\* C5: a listener that finishes an iteration on a datagram too short to
\* parse changes no counter, leaves the parse warning as the last log record
\* and is back at its read; and as long as the process runs, every echo
\* reply delivered, whatever was delivered before it, is eventually counted:
\* again and again the counters add up to the number of echo replies
\* delivered so far, a number that never decreases while the process runs.
C5_BadDatagramThenReply ==
    /\ [][ \A s \in Socks :
             (Handled(s) /\ TooShort(buf[s])) =>
                 /\ replies' = replies
                 /\ requests' = requests
                 /\ lastLog' = LogWarn("unable to parse ICMP message")
                 /\ lpc'[s] = "read"
         ]_vars
    /\ []<>(~Alive \/ Counted = TotalValid)

\* the IPv4 listener, alone so far, has warned of a datagram it could not
\* parse and waits at its read with an echo reply queued behind it
C5_Witness ==
    /\ lpc = [ip4 |-> "read", ip6 |-> "off"]
    /\ lastLog = LogWarn("unable to parse ICMP message")
    /\ rxq["ip4"] = <<[typ |-> 0, id |-> 2, len |-> 8]>>
    /\ replies = << >>

---------------------------------------------------------------------------
(* C6: the effect of one valid echo reply *)

\* the label the reply's identifier k is counted under: main.go resolves
\* the identifier, taken as a uint8, in the registry; metrics.go has no label
CountedLabel(k) ==
    IF variant = "main" THEN LabelOf(k % 256, nodes) ELSE NoLabel

---------------------------------------------------------------------------
(* C7: no increment is lost *)

\* replies with label l that a listener has read and not yet counted
InFlight(l) ==
    Cardinality({s \in Socks : /\ lpc[s] = "parse"
                               /\ Countable(s, buf[s])
                               /\ CountedLabel(buf[s].id) = l})

\* C7: however the two listeners and the prober interleave, each label's
\* replies counter equals the number of echo replies with that label the
\* listeners have read, less those a listener still holds uncounted (after
\* the process ended, less those it held at most); and the probes-sent
\* counter equals the number of passes of the loop body, each of which makes
\* one increment call.
C7_NoLostIncrement ==
    /\ \A l \in DOMAIN handed \cup DOMAIN replies :
          IF Alive
          THEN CounterValue(replies, l) + InFlight(l) = CounterValue(handed, l)
          ELSE /\ CounterValue(replies, l) <= CounterValue(handed, l)
               /\ CounterValue(handed, l) <= CounterValue(replies, l) + 2
    /\ requests = Len(probeLog)
    /\ Counted <= delivered

\* both listeners hold a reply for the same label at the same time, neither
\* counted yet
C7_Witness ==
    /\ variant = "main"
    /\ lpc = [ip4 |-> "parse", ip6 |-> "parse"]
    /\ InFlight("nyc") = 2
    /\ replies = << >>
    /\ requests >= 1

---------------------------------------------------------------------------
(* C8: what one tick does *)

\* C8: with the targets 10.0.0.1 and ::1, whenever main waits for a tick,
\* part_000 has made one write on pc4 and one on pc6 and raised probes_sent
\* by 2 in each of its rounds, and main.go has made one write in all and
\* raised probes_sent by 1 in each of its rounds.
C8_TickPolicy ==
    (targets = <<"10.0.0.1", "::1">> /\ mpc = "wait") =>
        /\ variant = "part_000" =>
              /\ Len(sent["ip4"]) = rounds
              /\ Len(sent["ip6"]) = rounds
              /\ requests = 2 * rounds
              /\ ticks = rounds
        /\ variant = "main" =>
              /\ Writes = rounds
              /\ requests = rounds
              /\ ticks = rounds - 1

\* part_000 after its second tick's round
C8_Witness ==
    /\ variant = "part_000"
    /\ targets = <<"10.0.0.1", "::1">>
    /\ mpc = "wait"
    /\ ticks = 2
    /\ requests = 4
    /\ Len(sent["ip4"]) = 2 /\ Len(sent["ip6"]) = 2

---------------------------------------------------------------------------
(* C9: no partial operation *)

\* C9 as stated: in no reachable state is a listener, the metrics listener
\* or the ticker loop running while a socket is not open.
C9_RunningOnlyWithBothOpen ==
    AnyRunning => (pc4 = "open" /\ pc6 = "open")

---------------------------------------------------------------------------
(* C10: the sockets' lifetime *)

\* C10 as stated: both sockets are open whenever a listener or the ticker
\* loop runs, and when the process has ended every socket it had opened has
\* been closed.
C10_OpenedSocketsClosedAtExit ==
    /\ (ProberRunning \/ \E s \in Socks : ListenerRunning(s)) =>
          (pc4 = "open" /\ pc6 = "open")
    /\ mpc = "exited" => \A s \in Socks : conn[s] # "open"

---------------------------------------------------------------------------
(* C11: the identifier's round trip through a probe and its reply *)

\* the process at its start: nothing opened, started, sent or counted
IdleProcess ==
    /\ mpc = "config"
    /\ ti = 1
    /\ conn = [s \in Socks |-> "nil"]
    /\ lpc = [s \in Socks |-> "off"]
    /\ buf = [s \in Socks |-> NoDatagram]
    /\ rxq = [s \in Socks |-> << >>]
    /\ delivered = 0
    /\ handed = << >>
    /\ sent = [s \in Socks |-> << >>]
    /\ probeLog = << >>
    /\ requests = 0
    /\ replies = << >>
    /\ srcLabel = ""
    /\ lastLog = NoLog
    /\ metrics = "off"
    /\ rounds = 0
    /\ ticks = 0

\* the echo reply a host's ICMP stack returns for an echo request: the
\* request's bytes with the reply type of its family swapped in
EchoReplyOf(b) ==
    [b EXCEPT !.typ = CASE b.typ = ICMPTypeEcho -> ICMPTypeEchoReply
                        [] b.typ = ICMPv6TypeEchoRequest -> ICMPv6TypeEchoReply
                        [] OTHER -> b.typ]

\* the target of a probe written on socket s answers it: its reply is queued
\* on the same socket; every probe is answered at most once
EchoBack(s) ==
    /\ Alive
    /\ conn[s] = "open"
    /\ delivered < Writes
    /\ \E i \in 1..Len(sent[s]) :
          rxq' = [rxq EXCEPT ![s] = Append(@, EchoReplyOf(sent[s][i].bytes))]
    /\ delivered' = delivered + 1
    /\ UNCHANGED <<configVars, mpc, probeVars, lpc, buf, handed, replies, conn,
                   srcLabel, lastLog, metrics>>

\* main.go started with any own identifier of a uint8, one of the registries
\* and an IPv4 and an IPv6 target
RoundTripInit ==
    /\ variant = "main"
    /\ nodes \in LookupRegistries
    /\ cfgID \in 0..(Uint8 - 1)
    /\ targets = <<"10.0.0.1", "::1">>
    /\ interval = "ok"
    /\ source = Sources("", "")
    /\ IdleProcess

\* main.go up to the end of its first round, the probe answered by its
\* target and the answer read and handled by the listener
RoundTripNext ==
    \/ LoadConfig \/ Open4 \/ Open6 \/ Go4 \/ Go6 \/ GoMetrics \/ NewTicker
    \/ ProbeRandom
    \/ \E s \in Socks : EchoBack(s)
    \/ \E s \in Socks : Recv(s)
    \/ \E s \in Socks : Handle(s)

RoundTripSpec == RoundTripInit /\ [][RoundTripNext]_vars

\* C11: for every own identifier 0..255, the reply to a probe built by
\* icmpProbe, which is the probe's bytes with the reply type swapped in, is
\* parsed by readEchoReply to a body with the same identifier: the listener
\* that handles it logs the reply with the own identifier and counts it, once,
\* under the label the registry gives the own identifier.
C11_IdentifierRoundTrip ==
    [][ \A s \in Socks :
          Handled(s) =>
              /\ buf[s].typ = ReplyTypeOf(s)
              /\ lastLog' = LogDebug("ICMP echo reply", cfgID)
              /\ replies' = (LabelOf(cfgID, nodes) :> 1)
      ]_vars

\* identifier 255 went out to ::1 on pc6, came back and was counted under
\* its registered name
C11_Witness ==
    /\ cfgID = 255
    /\ nodes = (0 :> "zero") @@ (255 :> "last")
    /\ Len(sent["ip6"]) = 1 /\ sent["ip6"][1].bytes.id = 255
    /\ lastLog = LogDebug("ICMP echo reply", 255)
    /\ replies = ("last" :> 1)

---------------------------------------------------------------------------
(* C12: the states of a reply listener *)

\* C12 as stated: a listener that finishes an iteration, whatever the
\* outcome, is back at its read; a listener stops only as its socket has been
\* closed or the process ends; and once its socket has been closed a listener
\* makes no further pass through the receive error of its loop.
C12_ListenerStateMachine ==
    /\ [][ \A s \in Socks :
             /\ Handled(s) => lpc'[s] = "read"
             /\ (lpc[s] # "off" /\ lpc'[s] = "off") =>
                    (conn'[s] = "closed" \/ mpc' = "exited")
         ]_vars
    /\ [](\A s \in Socks : conn[s] = "closed" => ~ENABLED RecvError(s))

---------------------------------------------------------------------------
(* C13: echo replies of the other family *)

\* the well-formed echo replies the kernel may queue, of either type number
EchoReplies ==
    {d \in Datagrams : /\ d.len >= HeaderLen + 4
                       /\ d.typ \in {ICMPTypeEchoReply, ICMPv6TypeEchoReply}}

\* the kernel queues a message carrying an echo reply type number on an
\* open socket, of either family
DeliverReply(s) ==
    /\ Alive
    /\ conn[s] = "open"
    /\ delivered < MaxDeliver
    /\ delivered' = delivered + 1
    /\ \E d \in EchoReplies : rxq' = [rxq EXCEPT ![s] = Append(@, d)]
    /\ UNCHANGED <<configVars, mpc, probeVars, lpc, buf, handed, replies, conn,
                   srcLabel, lastLog, metrics>>

\* either program started with a positive interval
CrossFamilyInit == Init /\ interval = "ok"

\* the setup and the listeners, fed with messages of both reply type numbers
CrossFamilyNext ==
    \/ LoadConfig \/ Open4 \/ Open6 \/ Go4 \/ Go6 \/ GoMetrics
    \/ \E s \in Socks : DeliverReply(s)
    \/ \E s \in Socks : Recv(s)
    \/ \E s \in Socks : Handle(s)

CrossFamilySpec == CrossFamilyInit /\ [][CrossFamilyNext]_vars

\* C13: of the messages carrying an echo reply type number, a listener
\* counts those and only those whose number is the reply type of its own
\* socket's family: type 0 on pc4 and type 129 on pc6 raise one replies
\* counter by 1; type 129 on pc4 and type 0 on pc6 change no counter and
\* leave the warning of an unexpected type as the last log record.
C13_OwnFamilyReplyOnly ==
    [][ \A s \in Socks :
          Handled(s) =>
              /\ buf[s].typ = ReplyTypeOf(s) =>
                    /\ SumVec(replies') = SumVec(replies) + 1
                    /\ lastLog' = LogDebug("ICMP echo reply", buf[s].id)
              /\ buf[s].typ # ReplyTypeOf(s) =>
                    /\ buf[s].typ = ReplyTypeOf(CHOOSE o \in Socks : o # s)
                    /\ replies' = replies
                    /\ lastLog' = LogWarn("unexpected ICMP message type")
      ]_vars

\* the IPv4 listener, alone so far, was handed a type 129 message, the only
\* type not its own here, rejected it and counted nothing
C13_Witness ==
    /\ lpc = [ip4 |-> "read", ip6 |-> "off"]
    /\ delivered = 1
    /\ rxq = [s \in Socks |-> << >>]
    /\ lastLog = LogWarn("unexpected ICMP message type")
    /\ replies = << >>

---------------------------------------------------------------------------
(* C14: the protocol number a datagram is parsed with *)

\* source addresses an operator configures for each family: none, the
\* wildcard, a host address, and for IPv6 a link-local address with its zone
Sources4 == {"", "0.0.0.0", "10.0.0.1"}
Sources6 == {"", "::", "::1", "fe80::1%eth0"}

\* main.go started with any pair of source addresses
BindInit ==
    /\ variant = "main"
    /\ nodes = (1 :> "ams") @@ (2 :> "nyc")
    /\ cfgID = 2
    /\ targets = <<"10.0.0.1", "::1">>
    /\ interval = "ok"
    /\ source \in {Sources(a4, a6) : a4 \in Sources4, a6 \in Sources6}
    /\ IdleProcess

\* the setup and the listeners, fed with every kind of datagram
BindNext ==
    \/ LoadConfig \/ Open4 \/ Open6 \/ Go4 \/ Go6 \/ GoMetrics
    \/ \E s \in Socks : Deliver(s)
    \/ \E s \in Socks : Recv(s)
    \/ \E s \in Socks : Handle(s)

BindSpec == BindInit /\ [][BindNext]_vars

\* the protocol number of the family a socket was opened for
FamilyProto(s) == IF s = "ip4" THEN 1 ELSE 58

\* C14: whatever source address a socket is bound to and whatever datagram
\* was read from it, readEchoReply parses the datagram with protocol 1 on
\* pc4 and protocol 58 on pc6; accordingly a listener counts a datagram
\* exactly when it is a well-formed echo reply of its own socket's family.
C14_ProtoFromSocketFamily ==
    /\ [](\A s \in Socks : lpc[s] = "parse" => ReplyProto(s) = FamilyProto(s))
    /\ [][ \A s \in Socks :
             Handled(s) => (replies' # replies <=> Countable(s, buf[s]))
         ]_vars

\* on the socket bound to a link-local address with a zone, a type 129
\* reply with identifier 9 was parsed as ICMPv6 and counted
C14_Witness ==
    /\ source["ip6"] = "fe80::1%eth0"
    /\ lastLog = LogDebug("ICMP echo reply", 9)
    /\ replies = ("unknown (id 9)" :> 1)

---------------------------------------------------------------------------
(* C15: probes that fail *)

\* probes one round makes
RoundSize == IF variant = "part_000" THEN Len(targets) ELSE 1

\* C15: a pass of the loop body whose probe fails to resolve or to be
\* written leaves a warning and nothing else: on a resolution failure no
\* socket is written, the loop goes on with the next target of the round
\* (part_000) or waits for the next tick, and is never left. So whenever the
\* loop waits for a tick every target of every round so far has been probed,
\* and the next tick can be taken.
C15_FailureAbsorbed ==
    /\ [][ (probeLog' # probeLog /\ lastLog'.lvl = "warn") =>
             /\ lastLog'.msg \in {"resolve", "write"}
             /\ lastLog'.msg = "resolve" => sent' = sent
             /\ variant = "part_000" =>
                    IF ti < Len(targets)
                    THEN mpc' = "probe" /\ ti' = ti + 1
                    ELSE mpc' = "wait"
             /\ variant = "main" => mpc' = "wait"
         ]_vars
    /\ [](mpc = "wait" => Len(probeLog) = rounds * RoundSize)
    /\ []((mpc = "wait" /\ rounds < MaxRounds) => ENABLED TakeTick)

\* part_000 with the targets bad.invalid and ::1: in both rounds the first
\* target failed to resolve and the second was probed on pc6 all the same
C15_Witness ==
    /\ variant = "part_000"
    /\ probeLog = <<"bad.invalid", "::1", "bad.invalid", "::1">>
    /\ ticks = 2
    /\ Len(sent["ip6"]) = 2 /\ sent["ip4"] = << >>
    /\ mpc = "wait"

---------------------------------------------------------------------------
(* C16: rounds and ticks *)

\* C16: a round starts only when every probe of the rounds before it has
\* been made and has returned, and by consuming exactly one tick, except the
\* first round of main.go, which starts with no tick consumed; the start of
\* a round sends nothing itself; probes are made one at a time, inside a
\* round, and consume no tick. So while the loop runs, part_000 has
\* consumed as many ticks as it started rounds and main.go one less.
C16_OneRoundPerTick ==
    /\ [][ rounds' # rounds =>
             /\ rounds' = rounds + 1
             /\ Len(probeLog) = rounds * RoundSize
             /\ probeLog' = probeLog /\ sent' = sent
             /\ IF variant = "main" /\ rounds = 0
                THEN ticks = 0 /\ ticks' = 0 /\ mpc = "ticker"
                ELSE ticks' = ticks + 1 /\ mpc = "wait"
         ]_vars
    /\ [][ probeLog' # probeLog =>
             /\ Len(probeLog') = Len(probeLog) + 1
             /\ Writes' <= Writes + 1
             /\ mpc = "probe" /\ rounds' = rounds /\ ticks' = ticks
         ]_vars
    /\ [](ProberRunning =>
             ticks = IF variant = "main" THEN rounds - 1 ELSE rounds)

\* main.go has made its first round at once and its second after one tick
C16_Witness ==
    /\ variant = "main"
    /\ mpc = "wait"
    /\ rounds = 2 /\ ticks = 1
    /\ Len(probeLog) = 2

---------------------------------------------------------------------------
(* C17: who reads and who writes a socket *)

\* C17: a running listener reads the socket of its own family and no other,
\* so no two listeners read the same socket; a datagram leaves the queue of
\* socket s only in a step of listener s, from its read, and of no other
\* activity; a WriteTo is added to a socket only in a step of the ticker
\* loop's probe, one socket at a time, and in no step of a listener.
C17_OneReaderOneWriter ==
    /\ [](\A l \in Socks : ListenerRunning(l) => ListenerConn(l) = l)
    /\ [][ \A s \in Socks :
             (mpc' # "exited" /\ Len(rxq'[s]) < Len(rxq[s])) =>
                 /\ lpc[s] = "read" /\ lpc'[s] = "parse"
                 /\ buf'[s] = Head(rxq[s])
                 /\ rxq'[s] = Tail(rxq[s])
                 /\ mpc' = mpc /\ sent' = sent
                 /\ \A o \in Socks \ {s} :
                       lpc'[o] = lpc[o] /\ rxq'[o] = rxq[o] /\ buf'[o] = buf[o]
         ]_vars
    /\ [][ \A s \in Socks :
             sent'[s] # sent[s] =>
                 /\ mpc = "probe"
                 /\ lpc' = lpc /\ buf' = buf /\ rxq' = rxq
                 /\ \A o \in Socks \ {s} : sent'[o] = sent[o]
         ]_vars

\* part_000 has written a probe on each socket and each listener holds a
\* datagram read from its own socket
C17_Witness ==
    /\ Len(sent["ip4"]) >= 1 /\ Len(sent["ip6"]) >= 1
    /\ lpc = [ip4 |-> "parse", ip6 |-> "parse"]
    /\ buf["ip4"].typ = 0 /\ buf["ip6"].typ = 129
    /\ rxq = [s \in Socks |-> << >>]

---------------------------------------------------------------------------
(* C18: replies whose identifier the registry does not know *)

\* C18 as stated: a listener of main.go that finishes an iteration on a
\* valid echo reply whose identifier N is not a key of the registry raises
\* by 1 the replies counter labelled "unknown (id N)", N the identifier the
\* reply carries, and logs the reply, not a warning.
C18_UnknownIdentifierCounted ==
    [][ \A s \in Socks :
          (/\ variant = "main"
           /\ Handled(s)
           /\ Countable(s, buf[s])
           /\ buf[s].id \notin DOMAIN nodes) =>
              LET l == "unknown (id " \o ToString(buf[s].id) \o ")" IN
              /\ CounterValue(replies', l) = CounterValue(replies, l) + 1
              /\ lastLog' = LogDebug("ICMP echo reply", buf[s].id)
      ]_vars

---------------------------------------------------------------------------
(* C19: identifiers that do not fit a uint8 *)

\* identifiers of 256 and more: one for every low byte, and the two ends
\* of the highest high byte
WideIDs == {Uint8 + k : k \in 0..(Uint8 - 1)} \cup {Uint16 - Uint8, Uint16 - 1}

\* the kernel queues on an open socket one echo reply of the socket's
\* family whose identifier is 256 or more
DeliverWide(s) ==
    /\ Alive
    /\ conn[s] = "open"
    /\ delivered = 0
    /\ delivered' = delivered + 1
    /\ \E n \in WideIDs :
          rxq' = [rxq EXCEPT ![s] =
                     Append(@, [typ |-> IF s = "ip4" THEN ICMPTypeEchoReply
                                        ELSE ICMPv6TypeEchoReply,
                                id |-> n, len |-> HeaderLen + 4])]
    /\ UNCHANGED <<configVars, mpc, probeVars, lpc, buf, handed, replies, conn,
                   srcLabel, lastLog, metrics>>

\* main.go started with one of the registries
NarrowInit ==
    /\ variant = "main"
    /\ nodes \in LookupRegistries
    /\ cfgID = 2
    /\ targets = <<"10.0.0.1", "::1">>
    /\ interval = "ok"
    /\ source = Sources("", "")
    /\ IdleProcess

\* the setup and the listeners, fed with one reply of a wide identifier
NarrowNext ==
    \/ LoadConfig \/ Open4 \/ Open6 \/ Go4 \/ Go6 \/ GoMetrics
    \/ \E s \in Socks : DeliverWide(s)
    \/ \E s \in Socks : Recv(s)
    \/ \E s \in Socks : Handle(s)

NarrowSpec == NarrowInit /\ [][NarrowNext]_vars

\* C19: a listener of main.go that finishes an iteration on a valid echo
\* reply with identifier N of 256 or more raises by 1 the replies counter
\* labelled as the registry labels N mod 256: the node's name when N mod 256
\* is a key, and otherwise the placeholder of N mod 256; the counter of the
\* placeholder of N itself does not move. The reply is logged with N.
C19_IdentifierNarrowed ==
    [][ \A s \in Socks :
          (Handled(s) /\ Countable(s, buf[s]) /\ buf[s].id >= 256) =>
              LET N == buf[s].id
                  k == N % 256
                  l == IF k \in DOMAIN nodes THEN nodes[k]
                       ELSE "unknown (id " \o ToString(k) \o ")"
                  wide == "unknown (id " \o ToString(N) \o ")"
              IN  /\ replies' = (l :> 1)
                  /\ CounterValue(replies', wide) = 0
                  /\ lastLog' = LogDebug("ICMP echo reply", N)
      ]_vars

\* registry {0: zero, 255: last}: a reply with identifier 65535 has been
\* counted for the node "last"
C19_Witness ==
    /\ nodes = (0 :> "zero") @@ (255 :> "last")
    /\ lastLog = LogDebug("ICMP echo reply", 65535)
    /\ replies = ("last" :> 1)

---------------------------------------------------------------------------
(* C20: the shared globals *)

\* pc4 and pc6 have been assigned; requests and replies have been created
SocketsAssigned == \A s \in Socks : conn[s] # "nil"
CountersAssigned == srcLabel # ""

\* C20: whenever a listener or the ticker loop runs, and in every step of
\* the running process that reads a datagram, writes a probe or increments
\* a counter, pc4, pc6, requests and replies have been assigned before; a
\* socket handle, once assigned, is never assigned again (it stays open or
\* becomes closed for good), the counters are never created again, and no
\* counter ever decreases or disappears.
C20_GlobalsAssignedBeforeUse ==
    /\ []((ProberRunning \/ \E s \in Socks : ListenerRunning(s)) =>
             (SocketsAssigned /\ CountersAssigned))
    /\ [][ (/\ mpc' # "exited"
            /\ \/ requests' # requests \/ replies' # replies
               \/ sent' # sent \/ buf' # buf) =>
                 (SocketsAssigned /\ CountersAssigned)
         ]_vars
    /\ [][ /\ \A s \in Socks :
                /\ conn[s] = "open" => conn'[s] \in {"open", "closed"}
                /\ conn[s] = "closed" => conn'[s] = "closed"
           /\ CountersAssigned => srcLabel' = srcLabel
           /\ requests' >= requests
           /\ \A l \in DOMAIN replies :
                 l \in DOMAIN replies' /\ replies'[l] >= replies[l]
         ]_vars

\* main.go, node 2 of {1: ams, 2: nyc}: a probe has been written and
\* counted and a reply read and counted, on sockets opened before
C20_Witness ==
    /\ srcLabel = "nyc"
    /\ pc4 = "open" /\ pc6 = "open"
    /\ requests >= 1 /\ Writes >= 1
    /\ DOMAIN replies # {}
    /\ mpc = "wait"

====
